---- MODULE Spec2Model ----
(***************************************************************************)
(* redisgraph-py: the in-memory Graph (redisgraph/graph.py), its Node      *)
(* (redisgraph/node.py) and the helpers of redisgraph/rg_utils.py.         *)
(*                                                                         *)
(* Python values: a str is a sequence of ASCII codes (<<97>> is 'a') and   *)
(* None the sequence <<-1>>, which is no str; the remote id n of a node is *)
(* held as <<n>>; a dict is the sequence of its <<key, value>> items in    *)
(* insertion order; a Node object is a position of `heap`, so that two     *)
(* references to one object see the same alias.                            *)
(***************************************************************************)
EXTENDS Integers, Sequences, FiniteSets, TLC

VARIABLES
    flush_rate,         \* Graph.flush_rate
    recreate_flag,      \* Graph.recreate_flag
    nodes,              \* Graph.nodes: dict alias -> Node
    edges,              \* Graph.edges: list of Edge
    _nodes_to_commit,   \* Graph._nodes_to_commit: dict alias -> Node
    _edges_to_commit,   \* Graph._edges_to_commit: list of Edge
    _labels,            \* Graph._labels: list of node labels
    _properties,        \* Graph._properties: list of property keys
    _relationshipTypes, \* Graph._relationshipTypes: list of relation types
    heap,               \* the Node objects the graph or one of its edges refers to
    call,               \* the last call on the graph: its name, arguments, outcome
    sent,               \* the redis_con.execute_command calls of the last call:
                        \* the command, its number of fragments, its outcome
    created             \* history, kept when created.on: the Node objects, the
                        \* aliases and the positions in Graph.edges of the
                        \* fragments of the create commands that succeeded
                        \* since the last delete

vars == <<flush_rate, recreate_flag, nodes, edges, _nodes_to_commit,
          _edges_to_commit, _labels, _properties, _relationshipTypes,
          heap, call, sent, created>>

-----------------------------------------------------------------------------
(* Bounds of the model. *)

\* most Node objects alive at once
MaxObjs == 2
\* largest index a catalog lookup is made with
MaxIdx == 1
\* most entries of Graph.nodes and Graph.edges together in CatalogSpec
MaxCatalogItems == 1
\* most Node objects alive at once in CatalogSpec
MaxCatalogObjs == 1
\* most characters of a str passed to a function of rg_utils
MaxLen == 3
\* most entries of Graph.nodes and Graph.edges together in HistSpec
MaxHistItems == 2
\* most entries of Graph.nodes and Graph.edges together
MaxItems == 3
\* largest flush_rate a Graph is constructed with
MaxFlushRate == 2

-----------------------------------------------------------------------------
(* Python values. *)

None == <<-1>>

\* the strings used as names: 'a', 'b', 'r', 'L', 'k', 'a*', 'L*', 'k*', 'a\n'
NameA == <<97>>
NameB == <<98>>
NameR == <<114>>
NameL == <<76>>
NameK == <<107>>
NameAStar == <<97, 42>>
NameLStar == <<76, 42>>
NameKStar == <<107, 42>>
NameANewline == <<97, 10>>

\* dict: insertion-ordered items
DictKeys(d) == {d[i][1] : i \in DOMAIN d}

DictGet(d, k) == d[CHOOSE i \in DOMAIN d : d[i][1] = k][2]

\* d[k] = v: a present key keeps its position, a new key goes last
DictSet(d, k, v) ==
    IF k \in DictKeys(d)
    THEN [i \in DOMAIN d |-> IF d[i][1] = k THEN <<k, v>> ELSE d[i]]
    ELSE Append(d, <<k, v>>)

\* list(d.values())
DictValues(d) == [i \in DOMAIN d |-> d[i][2]]

\* sep.join(ss)
RECURSIVE Join(_, _)
Join(sep, ss) ==
    IF ss = <<>> THEN <<>>
    ELSE IF Len(ss) = 1 THEN ss[1]
    ELSE ss[1] \o sep \o Join(sep, Tail(ss))

\* every item, None or not
NotNullItems_all(s) == s

\* [kv for kv in items if pd.notnull(kv[1])]
RECURSIVE NotNullItems(_)
NotNullItems(s) ==
    IF s = <<>> THEN <<>>
    ELSE IF Head(s)[2] # None THEN <<Head(s)>> \o NotNullItems(Tail(s))
    ELSE NotNullItems(Tail(s))

-----------------------------------------------------------------------------
(* rg_utils.py *)

\* [a-zA-Z_]
IsIdentStart(c) == c \in 65..90 \/ c \in 97..122 \/ c = 95

\* [0-9a-zA-Z_]
IsIdentChar(c) == IsIdentStart(c) \/ c \in 48..57

\* VALID_CYPHER_IDENIFIER.match(s) is not None, for the pattern
\* ^[a-zA-Z_][0-9a-zA-Z_]*$ : Python's $ matches at the end of the string
\* and also just before a newline that ends the string.
VALID_CYPHER_IDENIFIER(s) ==
    /\ Len(s) >= 1
    /\ IsIdentStart(s[1])
    /\ \E e \in {Len(s)} \cup (IF s[Len(s)] = 10 THEN {Len(s) - 1} ELSE {}) :
           \A i \in 2..e : IsIdentChar(s[i])

\* validate_cypher_identifier: [is_valid, exc]
validate_cypher_identifier(identifier, none_is_okay, raise_on_invalid) ==
    LET is_valid ==
            IF identifier = None THEN none_is_okay
            ELSE VALID_CYPHER_IDENIFIER(identifier)
    IN  [is_valid |-> is_valid,
         exc |-> IF ~is_valid /\ raise_on_invalid THEN "ValueError" ELSE "none"]

\* quote_string adding both quotes whatever v starts and ends with
quote_string_always(v) ==
    IF v = None THEN v ELSE <<34>> \o v \o <<34>>

\* quote_string(v) for v a str or None (None is not a str and is returned as is)
quote_string(v) ==
    IF v = None THEN v
    ELSE IF Len(v) = 0 THEN <<34, 34>>
    ELSE LET v1 == IF v[1] # 34 THEN <<34>> \o v ELSE v
         IN  IF v1[Len(v1)] # 34 THEN v1 \o <<34>> ELSE v1

-----------------------------------------------------------------------------
(* node.py *)

\* Node.__init__
Node(node_id, alias, label, properties) ==
    [id |-> node_id, alias |-> alias, label |-> label, properties |-> properties]

\* truth value of a str or None
Truthy(v) == v # None /\ v # <<>>

\* Node.__str__
Node_str(n) ==
    LET notnull == NotNullItems(n.properties)
        props == Join(<<44>>, [i \in DOMAIN notnull |->
                     notnull[i][1] \o <<58>> \o quote_string(notnull[i][2])])
    IN  <<40>>
        \o (IF Truthy(n.alias) THEN n.alias ELSE <<>>)
        \o (IF Truthy(n.label) THEN <<58>> \o n.label ELSE <<>>)
        \o (IF n.properties # <<>> THEN <<123>> \o props \o <<125>> ELSE <<>>)
        \o <<41>>

\* Node.validate: the exception it raises, "none" if it returns
Node_validate(n) ==
    IF validate_cypher_identifier(n.alias, TRUE, TRUE).exc # "none" THEN "ValueError"
    ELSE IF validate_cypher_identifier(n.label, TRUE, TRUE).exc # "none" THEN "ValueError"
    ELSE IF \E i \in DOMAIN n.properties :
                validate_cypher_identifier(n.properties[i][1], TRUE, TRUE).exc # "none"
         THEN "ValueError"
    ELSE "none"

\* dict.__eq__: the same keys with the same values, in whatever order
DictEq(d1, d2) ==
    /\ DictKeys(d1) = DictKeys(d2)
    /\ \A k \in DictKeys(d1) : DictGet(d1, k) = DictGet(d2, k)

\* Node.__eq__ taking equal ids for equal nodes, null or not
Node_eq_any_id(self, rhs) ==
    IF self.id = rhs.id THEN TRUE
    ELSE IF self.label # rhs.label THEN FALSE
    ELSE IF Len(self.properties) # Len(rhs.properties) THEN FALSE
    ELSE DictEq(self.properties, rhs.properties)

\* Node.__eq__ looking for the properties of self in rhs, without the check
\* of their number
Node_eq_subset(self, rhs) ==
    IF self.id # None /\ rhs.id # None /\ self.id = rhs.id THEN TRUE
    ELSE IF self.label # rhs.label THEN FALSE
    ELSE \A k \in DictKeys(self.properties) :
             /\ k \in DictKeys(rhs.properties)
             /\ DictGet(self.properties, k) = DictGet(rhs.properties, k)

\* Node.__eq__
Node_eq(self, rhs) ==
    IF self.id # None /\ rhs.id # None /\ self.id = rhs.id THEN TRUE
    ELSE IF self.label # rhs.label THEN FALSE
    ELSE IF Len(self.properties) # Len(rhs.properties) THEN FALSE
    ELSE DictEq(self.properties, rhs.properties)

-----------------------------------------------------------------------------
(* graph.py: the methods of Graph, as functions of the Graph object g        *)
(* ([flush_rate, heap, nodes, edges, _nodes_to_commit, _edges_to_commit,   *)
(* recreate_flag]) and of what the environment does during the call         *)
(* to the object after the call and the exception raised ("none": returned).*)

\* Graph._initialize
_initialize(g) ==
    [g EXCEPT !.recreate_flag = FALSE, !.nodes = <<>>, !.edges = <<>>,
              !._labels = <<>>, !._properties = <<>>, !._relationshipTypes = <<>>,
              !._nodes_to_commit = <<>>, !._edges_to_commit = <<>>]

\* Graph.add_node; rnd is what random_string() returns when it is called
add_node(g, n, alias_property, validate, rnd) ==
    LET node == g.heap[n]
    IN  IF alias_property # None /\ alias_property \notin DictKeys(node.properties)
        THEN [g |-> g, exc |-> "KeyError", ret |-> None]
        ELSE
        LET a1 == IF alias_property # None
                  THEN DictGet(node.properties, alias_property)
                  ELSE node.alias
            a2 == IF a1 = None THEN rnd ELSE a1
            g2 == [g EXCEPT !.heap[n].alias = a2]
            exc == IF validate THEN Node_validate(g2.heap[n]) ELSE "none"
        IN  IF exc # "none"
            THEN [g |-> g2, exc |-> exc, ret |-> None]
            ELSE [g |-> [g2 EXCEPT !.nodes = DictSet(@, a2, n),
                                   !._nodes_to_commit = DictSet(@, a2, n)],
                  exc |-> "none", ret |-> a2]

\* Graph.add_nodes: add_node per element, in order, until one raises;
\* rnds[i] is what random_string() returns for element i
RECURSIVE add_nodes(_, _, _, _, _)
add_nodes(g, node_list, alias_property, validate, rnds) ==
    IF node_list = <<>> THEN [g |-> g, exc |-> "none", ret |-> <<>>]
    ELSE LET r == add_node(g, Head(node_list), alias_property, validate, Head(rnds))
         IN  IF r.exc # "none" THEN r
             ELSE LET rest == add_nodes(r.g, Tail(node_list), alias_property,
                                        validate, Tail(rnds))
                  IN  IF rest.exc # "none" THEN rest
                      ELSE [rest EXCEPT !.ret = <<r.ret>> \o @]

\* add_edge, asserting `source_exists or dest_exists`
add_edge_either_end(g, edge, validate_nodes) ==
    LET source_exists == g.heap[edge.src_node].alias \in DictKeys(g.nodes)
        dest_exists == g.heap[edge.dest_node].alias \in DictKeys(g.nodes)
    IN  IF validate_nodes /\ ~(source_exists \/ dest_exists)
        THEN [g |-> g, exc |-> "AssertionError"]
        ELSE [g |-> [g EXCEPT !.edges = Append(@, edge),
                              !._edges_to_commit = Append(@, edge)],
              exc |-> "none"]

\* Graph.add_edge; an Edge is [src_node, dest_node], two Node objects
add_edge(g, edge, validate_nodes) ==
    LET source_exists == g.heap[edge.src_node].alias \in DictKeys(g.nodes)
        dest_exists == g.heap[edge.dest_node].alias \in DictKeys(g.nodes)
    IN  IF validate_nodes /\ ~(source_exists /\ dest_exists)
        THEN [g |-> g, exc |-> "AssertionError"]
        ELSE [g |-> [g EXCEPT !.edges = Append(@, edge),
                              !._edges_to_commit = Append(@, edge)],
              exc |-> "none"]

\* Edge.__str__: the pattern (src)-[]->(dest) over the endpoints' aliases
Edge_str(g, edge) ==
    LET src == g.heap[edge.src_node].alias
        dest == g.heap[edge.dest_node].alias
    IN  <<40>> \o (IF Truthy(src) THEN src ELSE <<>>) \o <<41, 45, 91, 93, 45, 62, 40>>
        \o (IF Truthy(dest) THEN dest ELSE <<>>) \o <<41>>

\* redis_con.execute_command: log holds the commands of this call so far, and
\* the fail-th command of the call is the one the remote store rejects
execute_command(log, cmd, q, fail) ==
    LET ok == Len(log) + 1 # fail
    IN  [log |-> Append(log, [cmd |-> cmd, q |-> q, ok |-> ok]),
         exc |-> IF ok THEN "none" ELSE "ResponseError"]

\* Graph.query. The text 'CREATE f1,f2,...,fn,' is held as the sequence
\* <<f1, ..., fn>> of its fragments, so the comma query() drops is not held.
query(log, q, fail) == execute_command(log, "GRAPH.QUERY", q, fail)

\* _commit_loop, flushing when the index is a multiple of flush_rate
RECURSIVE _commit_loop_flush_early(_, _, _, _, _, _)
_commit_loop_flush_early(g, l, i, q, log, fail) ==
    IF i > Len(l)
    THEN IF Len(q) > 0 THEN query(log, q, fail) ELSE [log |-> log, exc |-> "none"]
    ELSE LET q1 == Append(q, l[i])
         IN  IF ((i - 1) % g.flush_rate) = 0
             THEN LET r == query(log, q1, fail)
                  IN  IF r.exc # "none" THEN r
                      ELSE _commit_loop_flush_early(g, l, i + 1, <<>>, r.log, fail)
             ELSE _commit_loop_flush_early(g, l, i + 1, q1, log, fail)

\* the for loop of Graph._commit_list at item l[i] (enumerate's index is i - 1)
\* with buffer q, and the statement that follows the loop
RECURSIVE _commit_loop(_, _, _, _, _, _)
_commit_loop(g, l, i, q, log, fail) ==
    IF i > Len(l)
    THEN IF Len(q) > 0 THEN query(log, q, fail) ELSE [log |-> log, exc |-> "none"]
    ELSE LET q1 == Append(q, l[i])
         IN  IF ((i - 1) % g.flush_rate) = (g.flush_rate - 1)
             THEN LET r == query(log, q1, fail)
                  IN  IF r.exc # "none" THEN r
                      ELSE _commit_loop(g, l, i + 1, <<>>, r.log, fail)
             ELSE _commit_loop(g, l, i + 1, q1, log, fail)

\* Graph._commit_list; l holds str(item) for each item
_commit_list(g, l, log, fail) ==
    IF Len(l) = 0 THEN [log |-> log, exc |-> "none"]
    ELSE _commit_loop(g, l, 1, <<>>, log, fail)

\* [str(node) for node in d.values()]
NodeStrs(g, d) == [i \in DOMAIN d |-> Node_str(g.heap[d[i][2]])]

\* [str(edge) for edge in l]
EdgeStrs(g, l) == [i \in DOMAIN l |-> Edge_str(g, l[i])]

\* _commit_nodes, resetting _nodes_to_commit in a `finally`
_commit_nodes_finally(g, log, fail) ==
    LET r == _commit_list(g, NodeStrs(g, g._nodes_to_commit), log, fail)
    IN  [g |-> [g EXCEPT !._nodes_to_commit = <<>>], log |-> r.log, exc |-> r.exc]

\* Graph._commit_nodes
_commit_nodes(g, log, fail) ==
    LET r == _commit_list(g, NodeStrs(g, g._nodes_to_commit), log, fail)
    IN  IF r.exc # "none" THEN [g |-> g, log |-> r.log, exc |-> r.exc]
        ELSE [g |-> [g EXCEPT !._nodes_to_commit = <<>>], log |-> r.log, exc |-> "none"]

\* _commit_edges, resetting _edges_to_commit in a `finally`
_commit_edges_finally(g, log, fail) ==
    LET r == _commit_list(g, EdgeStrs(g, g._edges_to_commit), log, fail)
    IN  [g |-> [g EXCEPT !._edges_to_commit = <<>>], log |-> r.log, exc |-> r.exc]

\* _commit_edges, resetting edges instead of _edges_to_commit
_commit_edges_reset_edges(g, log, fail) ==
    LET r == _commit_list(g, EdgeStrs(g, g._edges_to_commit), log, fail)
    IN  IF r.exc # "none" THEN [g |-> g, log |-> r.log, exc |-> r.exc]
        ELSE [g |-> [g EXCEPT !.edges = <<>>], log |-> r.log, exc |-> "none"]

\* Graph._commit_edges
_commit_edges(g, log, fail) ==
    LET r == _commit_list(g, EdgeStrs(g, g._edges_to_commit), log, fail)
    IN  IF r.exc # "none" THEN [g |-> g, log |-> r.log, exc |-> r.exc]
        ELSE [g |-> [g EXCEPT !._edges_to_commit = <<>>], log |-> r.log, exc |-> "none"]

\* commit, flushing the edges first
commit_edges_first(g, fail) ==
    LET r == _commit_edges(g, <<>>, fail)
    IN  IF r.exc # "none" THEN r ELSE _commit_nodes(r.g, r.log, fail)

\* Graph.commit
commit(g, fail) ==
    LET r == _commit_nodes(g, <<>>, fail)
    IN  IF r.exc # "none" THEN r ELSE _commit_edges(r.g, r.log, fail)

\* recreate_in_database without the check of recreate_flag
recreate_in_database_unguarded(g, fail) ==
    LET r1 == _commit_list(g, NodeStrs(g, g.nodes), <<>>, fail)
    IN  IF r1.exc # "none" THEN [g |-> g, log |-> r1.log, exc |-> r1.exc]
        ELSE LET r2 == _commit_list(g, EdgeStrs(g, g.edges), r1.log, fail)
             IN  IF r2.exc # "none" THEN [g |-> g, log |-> r2.log, exc |-> r2.exc]
                 ELSE [g |-> [g EXCEPT !._nodes_to_commit = <<>>,
                                       !._edges_to_commit = <<>>,
                                       !.recreate_flag = FALSE],
                       log |-> r2.log, exc |-> "none"]

\* recreate_in_database, flushing the pending collections only
recreate_in_database_pending(g, fail) ==
    IF ~(g.recreate_flag = TRUE)
    THEN [g |-> g, log |-> <<>>, exc |-> "none"]
    ELSE LET r1 == _commit_list(g, NodeStrs(g, g._nodes_to_commit), <<>>, fail)
         IN  IF r1.exc # "none" THEN [g |-> g, log |-> r1.log, exc |-> r1.exc]
             ELSE LET r2 == _commit_list(g, EdgeStrs(g, g._edges_to_commit), r1.log, fail)
                  IN  IF r2.exc # "none" THEN [g |-> g, log |-> r2.log, exc |-> r2.exc]
                      ELSE [g |-> [g EXCEPT !._nodes_to_commit = <<>>,
                                            !._edges_to_commit = <<>>,
                                            !.recreate_flag = FALSE],
                            log |-> r2.log, exc |-> "none"]

\* Graph.recreate_in_database
recreate_in_database(g, fail) ==
    IF ~(g.recreate_flag = TRUE)
    THEN [g |-> g, log |-> <<>>, exc |-> "none"]
    ELSE LET r1 == _commit_list(g, NodeStrs(g, g.nodes), <<>>, fail)
         IN  IF r1.exc # "none" THEN [g |-> g, log |-> r1.log, exc |-> r1.exc]
             ELSE LET r2 == _commit_list(g, EdgeStrs(g, g.edges), r1.log, fail)
                  IN  IF r2.exc # "none" THEN [g |-> g, log |-> r2.log, exc |-> r2.exc]
                      ELSE [g |-> [g EXCEPT !._nodes_to_commit = <<>>,
                                            !._edges_to_commit = <<>>,
                                            !.recreate_flag = FALSE],
                            log |-> r2.log, exc |-> "none"]

\* delete, resetting the graph only once the remote delete has returned
delete_remote_first(g, fail) ==
    LET r == execute_command(<<>>, "GRAPH.DELETE", <<>>, fail)
    IN  [g |-> IF r.exc = "none" THEN _initialize(g) ELSE g,
         log |-> r.log, exc |-> r.exc]

\* Graph.delete
delete(g, fail) ==
    LET g1 == _initialize(g)
        r == execute_command(<<>>, "GRAPH.DELETE", <<>>, fail)
    IN  [g |-> g1, log |-> r.log, exc |-> r.exc]

-----------------------------------------------------------------------------
(* The cached catalog lists (labels, relation types, property keys); an     *)
(* operation returns the object after the call, the exception raised, the  *)
(* value returned and the commands sent.                                   *)

\* list[idx] of Python: is idx an index of l (0-based, negative from the end)
InRange(l, idx) == -Len(l) <= idx /\ idx < Len(l)

\* list[idx] of Python for an idx in range
Item(l, idx) == IF idx >= 0 THEN l[idx + 1] ELSE l[Len(l) + idx + 1]

\* QueryResult(graph, response).result_set: the rows of the reply
QueryResult(response) == [result_set |-> response]

\* 'db.labels', 'db.relationshipTypes', 'db.propertyKeys'
ProcLabels == <<100, 98, 46, 108, 97, 98, 101, 108, 115>>
ProcRelationshipTypes ==
    <<100, 98, 46, 114, 101, 108, 97, 116, 105, 111, 110, 115, 104, 105, 112,
      84, 121, 112, 101, 115>>
ProcPropertyKeys ==
    <<100, 98, 46, 112, 114, 111, 112, 101, 114, 116, 121, 75, 101, 121, 115>>

\* the text 'CALL %s(%s)' % (procedure, ','.join(args))
CallText(procedure, args) ==
    <<67, 65, 76, 76, 32>> \o procedure \o <<40>>
    \o Join(<<44>>, [i \in DOMAIN args |-> quote_string(args[i])]) \o <<41>>

\* Graph.call_procedure without YIELD; response is the reply of the remote
\* store when the command succeeds. The text is sent as one fragment.
call_procedure(log, procedure, args, response, fail) ==
    LET r == query(log, <<CallText(procedure, args)>>, fail)
    IN  [log |-> r.log, exc |-> r.exc,
         result_set |-> IF r.exc = "none"
                        THEN QueryResult(response).result_set ELSE None]

\* Graph.labels, Graph.relationship_types, Graph.property_keys
labels(log, response, fail) == call_procedure(log, ProcLabels, <<>>, response, fail)
relationship_types(log, response, fail) ==
    call_procedure(log, ProcRelationshipTypes, <<>>, response, fail)
property_keys(log, response, fail) ==
    call_procedure(log, ProcPropertyKeys, <<>>, response, fail)

\* the cached list after a refresh: l[0] for each row l of the result set
Unpack(rows) == [i \in DOMAIN rows |-> rows[i][1]]

\* the lookup in a cached list `cached`; r is the catalog call made when idx
\* is out of range. <<the cached list afterwards, exception, value, commands>>
Lookup(cached, idx, r) ==
    IF InRange(cached, idx)
    THEN [cached |-> cached, exc |-> "none", ret |-> Item(cached, idx), log |-> <<>>]
    ELSE IF r.exc # "none"
    THEN [cached |-> cached, exc |-> r.exc, ret |-> None, log |-> r.log]
    ELSE LET l == Unpack(r.result_set)
         IN  IF InRange(l, idx)
             THEN [cached |-> l, exc |-> "none", ret |-> Item(l, idx), log |-> r.log]
             ELSE [cached |-> l, exc |-> "IndexError", ret |-> None, log |-> r.log]

\* get_label, refreshing the list on every lookup
get_label_refresh_always(g, idx, response, fail) ==
    LET r == Lookup(<<>>, idx, labels(<<>>, response, fail))
    IN  [g |-> [g EXCEPT !._labels = IF r.exc = "ResponseError" THEN @ ELSE r.cached],
         exc |-> r.exc, ret |-> r.ret, log |-> r.log]

\* get_label, appending the rows of the reply to the cached list
get_label_extend(g, idx, response, fail) ==
    LET r == labels(<<>>, response, fail)
        l == g._labels \o Unpack(response)
    IN  IF InRange(g._labels, idx) \/ r.exc # "none"
        THEN [g |-> g, exc |-> r.exc, ret |-> None, log |-> r.log]
        ELSE [g |-> [g EXCEPT !._labels = l],
              exc |-> IF InRange(l, idx) THEN "none" ELSE "IndexError",
              ret |-> IF InRange(l, idx) THEN Item(l, idx) ELSE None,
              log |-> r.log]

\* Graph.get_label
get_label(g, idx, response, fail) ==
    LET r == Lookup(g._labels, idx, labels(<<>>, response, fail))
    IN  [g |-> [g EXCEPT !._labels = r.cached],
         exc |-> r.exc, ret |-> r.ret, log |-> r.log]

\* Graph.get_relation
get_relation(g, idx, response, fail) ==
    LET r == Lookup(g._relationshipTypes, idx, relationship_types(<<>>, response, fail))
    IN  [g |-> [g EXCEPT !._relationshipTypes = r.cached],
         exc |-> r.exc, ret |-> r.ret, log |-> r.log]

\* Graph.get_property
get_property(g, idx, response, fail) ==
    LET r == Lookup(g._properties, idx, property_keys(<<>>, response, fail))
    IN  [g |-> [g EXCEPT !._properties = r.cached],
         exc |-> r.exc, ret |-> r.ret, log |-> r.log]

-----------------------------------------------------------------------------
(* The caller. *)

\* the Node objects a caller constructs: Node(alias=..., label=..., properties=...)
\*   Node(alias='a', label='L', properties={'k': 'b'})
\*   Node(properties={'k': 'a*', 'L': None})
\*   Node(alias='b', label='L*')
\*   Node(alias='b', properties={'k*': None})
\*   Node(alias='a\n')
NodeInputs ==
    { Node(None, NameA, NameL, << <<NameK, NameB>> >>),
      Node(None, None, None, << <<NameK, NameAStar>>, <<NameL, None>> >>),
      Node(None, NameB, NameLStar, <<>>),
      Node(None, NameB, None, << <<NameKStar, None>> >>),
      Node(None, NameANewline, None, <<>>) }

\* the Node objects a caller constructs as the endpoint of an Edge
EdgeNodeInputs == { Node(None, NameA, NameL, << <<NameK, NameB>> >>) }

\* the alias_property arguments a caller passes
AliasProperties == {None, NameK}

\* what random_string() may return (lowercase letters only)
RandomStrings == {NameR, NameB}

\* the Graph object
G ==
    [flush_rate |-> flush_rate, heap |-> heap, nodes |-> nodes, edges |-> edges,
     _nodes_to_commit |-> _nodes_to_commit, _edges_to_commit |-> _edges_to_commit,
     _labels |-> _labels, _properties |-> _properties,
     _relationshipTypes |-> _relationshipTypes,
     recreate_flag |-> recreate_flag]

\* the Node objects a collection of g refers to
Referenced(g) ==
    {g.nodes[i][2] : i \in DOMAIN g.nodes}
    \cup {g._nodes_to_commit[i][2] : i \in DOMAIN g._nodes_to_commit}
    \cup {g.edges[i].src_node : i \in DOMAIN g.edges}
    \cup {g.edges[i].dest_node : i \in DOMAIN g.edges}
    \cup {g._edges_to_commit[i].src_node : i \in DOMAIN g._edges_to_commit}
    \cup {g._edges_to_commit[i].dest_node : i \in DOMAIN g._edges_to_commit}

\* the heap up to the last object g refers to: an object constructed for a
\* call that left it in no collection is forgotten with the call
Live(g) ==
    LET last == CHOOSE m \in {0} \cup Referenced(g) :
                    \A k \in Referenced(g) : k <= m
    IN  SubSeq(g.heap, 1, last)

\* a Node argument: an object of the heap, or one of `inputs` constructed
\* for the call; <<the heap with the argument in it, the argument>>
NodeArgs(h, inputs) ==
    {<<h, n>> : n \in DOMAIN h}
    \cup (IF Len(h) < MaxObjs
          THEN {<<Append(h, c), Len(h) + 1>> : c \in inputs}
          ELSE {})

\* what `sent` keeps of the commands of a call
Summary(log) ==
    [i \in DOMAIN log |-> [cmd |-> log[i].cmd, n |-> Len(log[i].q), ok |-> log[i].ok]]

\* the history at the start and after a delete: the Node objects and the
\* positions in Graph.edges that a create command which succeeded carried, the
\* aliases of the node fragments sent, and whether an add_edge call added an
\* edge that validate_nodes refuses
NoHistory(on) ==
    [on |-> on, objs |-> {}, aliases |-> {}, edges |-> {}, unchecked |-> FALSE]

\* the items of the fragments of the commands cmds (of those that succeeded
\* when ok_only), when the commands carry the fragments of `items` in order
RECURSIVE SentItems(_, _, _)
SentItems(items, cmds, ok_only) ==
    IF cmds = <<>> THEN {}
    ELSE LET n == Len(Head(cmds).q)
         IN  (IF Head(cmds).ok \/ ~ok_only THEN {items[i] : i \in 1..n} ELSE {})
             \cup SentItems(SubSeq(items, n + 1, Len(items)), Tail(cmds), ok_only)

\* what a flush of the nodes ns and then of the edges es walks through:
\* <<"node", object, its alias>> and <<"edge", position in Graph.edges>>
Flushed(ns, es, first) ==
    [i \in DOMAIN ns |-> <<"node", ns[i][2], heap[ns[i][2]].alias>>]
    \o [i \in DOMAIN es |-> <<"edge", first + i>>]

\* what the call c walks through when it flushes
FlushedBy(c) ==
    IF c.op = "commit"
    THEN Flushed(_nodes_to_commit, _edges_to_commit,
                 Len(edges) - Len(_edges_to_commit))
    ELSE IF c.op = "recreate_in_database" THEN Flushed(nodes, edges, 0)
    ELSE <<>>

\* the edge an add_edge call appended although an endpoint's alias is no key
\* of nodes, which only a call with validate_nodes off does
Unchecked(g, c) ==
    /\ c.op = "add_edge"
    /\ Len(g.edges) > Len(edges)
    /\ LET edge == g.edges[Len(g.edges)]
       IN  ~ /\ g.heap[edge.src_node].alias \in DictKeys(nodes)
             /\ g.heap[edge.dest_node].alias \in DictKeys(nodes)

\* the history after the call c that sent the commands of log and left the
\* Graph object as g
Track(g, c, log) ==
    IF ~created.on THEN created
    ELSE IF c.op = "delete" THEN NoHistory(TRUE)
    ELSE LET ok == SentItems(FlushedBy(c), log, TRUE)
             all == SentItems(FlushedBy(c), log, FALSE)
         IN  [on |-> TRUE,
              objs |-> (created.objs \cup {x[2] : x \in {y \in ok : y[1] = "node"}})
                       \cap DOMAIN Live(g),
              aliases |-> created.aliases
                          \cup {x[3] : x \in {y \in all : y[1] = "node"}},
              edges |-> created.edges \cup {x[2] : x \in {y \in ok : y[1] = "edge"}},
              unchecked |-> created.unchecked \/ Unchecked(g, c)]

\* the state after a call that left the Graph object as g
Returns(g, c, log) ==
    /\ created' = Track(g, c, log)
    /\ flush_rate' = g.flush_rate
    /\ recreate_flag' = g.recreate_flag
    /\ nodes' = g.nodes
    /\ edges' = g.edges
    /\ _nodes_to_commit' = g._nodes_to_commit
    /\ _edges_to_commit' = g._edges_to_commit
    /\ _labels' = g._labels
    /\ _properties' = g._properties
    /\ _relationshipTypes' = g._relationshipTypes
    /\ heap' = Live(g)
    /\ call' = c
    /\ sent' = Summary(log)

\* Graph(name, redis_con, flush_rate)
Init ==
    /\ flush_rate \in 1..MaxFlushRate
    /\ recreate_flag = FALSE
    /\ nodes = <<>>
    /\ edges = <<>>
    /\ _nodes_to_commit = <<>>
    /\ _edges_to_commit = <<>>
    /\ _labels = <<>>
    /\ _properties = <<>>
    /\ _relationshipTypes = <<>>
    /\ heap = <<>>
    /\ call = [op |-> "__init__", exc |-> "none"]
    /\ sent = <<>>
    /\ created = NoHistory(FALSE)

\* graph.add_node(node, alias_property, validate)
AddNode ==
    /\ Len(nodes) + Len(edges) < MaxItems
    /\ \E a \in NodeArgs(heap, NodeInputs), alias_property \in AliasProperties,
       validate \in BOOLEAN, rnd \in RandomStrings :
        LET r == add_node([G EXCEPT !.heap = a[1]], a[2], alias_property, validate, rnd)
        IN  Returns(r.g,
                    [op |-> "add_node", exc |-> r.exc], <<>>)

\* graph.add_nodes([node1, node2], alias_property, validate)
AddNodes ==
    /\ Len(nodes) + Len(edges) + 2 <= MaxItems
    /\ \E a \in NodeArgs(heap, NodeInputs), alias_property \in AliasProperties,
          validate \in BOOLEAN, rnds \in RandomStrings \X RandomStrings :
       \E b \in NodeArgs(a[1], NodeInputs) :
        LET r == add_nodes([G EXCEPT !.heap = b[1]], <<a[2], b[2]>>,
                           alias_property, validate, rnds)
        IN  Returns(r.g, [op |-> "add_nodes", exc |-> r.exc], <<>>)

\* graph.add_edge(Edge(src_node, dest_node), validate_nodes)
AddEdge ==
    /\ Len(nodes) + Len(edges) < MaxItems
    /\ \E s \in NodeArgs(heap, EdgeNodeInputs), validate_nodes \in BOOLEAN :
       \E d \in NodeArgs(s[1], EdgeNodeInputs) :
        LET edge == [src_node |-> s[2], dest_node |-> d[2]]
            r == add_edge([G EXCEPT !.heap = d[1]], edge, validate_nodes)
        IN  Returns(r.g,
                    [op |-> "add_edge", exc |-> r.exc], <<>>)

\* the number of commands a call sends when none fails
Commands(log) == 0..Len(log)

\* graph.commit()
Commit ==
    \E fail \in Commands(commit(G, 0).log) :
        LET r == commit(G, fail)
        IN  Returns(r.g, [op |-> "commit", exc |-> r.exc], r.log)

\* graph.recreate_flag = True
SetRecreateFlag ==
    /\ ~recreate_flag
    /\ Returns([G EXCEPT !.recreate_flag = TRUE],
               [op |-> "set_recreate_flag", exc |-> "none"], <<>>)

\* graph.recreate_in_database()
RecreateInDatabase ==
    \E fail \in Commands(recreate_in_database(G, 0).log) :
        LET r == recreate_in_database(G, fail)
        IN  Returns(r.g, [op |-> "recreate_in_database", exc |-> r.exc], r.log)

\* graph.delete()
Delete ==
    \E fail \in 0..1 :
        LET r == delete(G, fail)
        IN  Returns(r.g, [op |-> "delete", exc |-> r.exc], r.log)

Next ==
    \/ AddNode
    \/ AddNodes
    \/ AddEdge
    \/ Commit
    \/ SetRecreateFlag
    \/ RecreateInDatabase
    \/ Delete

Spec == Init /\ [][Next]_vars

\* the indexes a result decoder looks up
Indexes == 0..MaxIdx

\* the replies of the remote store to a catalog call: one row per name
\*   [], [['L']], [['L'], ['k']]
CatalogReplies == { <<>>, << <<NameL>> >>, << <<NameL>>, <<NameK>> >> }

\* the texts a caller passes to query: 'RETURN 1'
QueryTexts == { <<82, 69, 84, 85, 82, 78, 32, 49>> }

\* graph.get_label(idx)
GetLabel ==
    \E idx \in Indexes, response \in CatalogReplies, fail \in 0..1 :
        LET r == get_label(G, idx, response, fail)
        IN  Returns(r.g, [op |-> "get_label", exc |-> r.exc, idx |-> idx], r.log)

\* graph.get_relation(idx)
GetRelation ==
    \E idx \in Indexes, response \in CatalogReplies, fail \in 0..1 :
        LET r == get_relation(G, idx, response, fail)
        IN  Returns(r.g, [op |-> "get_relation", exc |-> r.exc, idx |-> idx], r.log)

\* graph.get_property(idx)
GetProperty ==
    \E idx \in Indexes, response \in CatalogReplies, fail \in 0..1 :
        LET r == get_property(G, idx, response, fail)
        IN  Returns(r.g, [op |-> "get_property", exc |-> r.exc, idx |-> idx], r.log)

\* graph.query(text)
Query ==
    \E text \in QueryTexts, fail \in 0..1 :
        LET r == query(<<>>, <<text>>, fail)
        IN  Returns(G, [op |-> "query", exc |-> r.exc], r.log)

\* the operations of the graph (add_nodes is add_node repeated), on graphs
\* of at most MaxCatalogItems entries and MaxCatalogObjs Node objects
CatalogNext ==
    \/ GetLabel
    \/ GetRelation
    \/ GetProperty
    \/ Query
    \/ /\ \/ AddNode
          \/ AddEdge
          \/ Commit
          \/ SetRecreateFlag
          \/ RecreateInDatabase
          \/ Delete
       /\ Len(nodes') + Len(edges') <= MaxCatalogItems
       /\ Len(heap') <= MaxCatalogObjs

CatalogSpec == Init /\ [][CatalogNext]_vars

\* Graph(name, redis_con, flush_rate), with the history kept
HistInit ==
    /\ flush_rate \in 1..MaxFlushRate
    /\ recreate_flag = FALSE
    /\ nodes = <<>>
    /\ edges = <<>>
    /\ _nodes_to_commit = <<>>
    /\ _edges_to_commit = <<>>
    /\ _labels = <<>>
    /\ _properties = <<>>
    /\ _relationshipTypes = <<>>
    /\ heap = <<>>
    /\ call = [op |-> "__init__", exc |-> "none"]
    /\ sent = <<>>
    /\ created = NoHistory(TRUE)

\* the operations on nodes and edges (add_nodes is add_node repeated), on
\* graphs of at most MaxHistItems entries
HistNext ==
    /\ \/ AddNode
       \/ AddEdge
       \/ Commit
       \/ SetRecreateFlag
       \/ RecreateInDatabase
       \/ Delete
    /\ Len(nodes') + Len(edges') <= MaxHistItems

HistSpec == HistInit /\ [][HistNext]_vars

\* the calls of a caller that never deletes and leaves validate_nodes on
EndpointNext ==
    /\ \/ AddNode \/ AddEdge \/ Commit \/ SetRecreateFlag \/ RecreateInDatabase
    /\ Len(nodes') + Len(edges') <= MaxHistItems
    /\ ~created'.unchecked

EndpointSpec == HistInit /\ [][EndpointNext]_vars

\* the str values over `chars` of at most n characters
Strs(chars, n) == UNION { [1..k -> chars] : k \in 0..n }

\* the names passed to validate_cypher_identifier: None and the strs over
\* 'a', '1', '_', '*' and newline
Identifiers == {None} \cup Strs({97, 49, 95, 42, 10}, MaxLen)

\* the text values passed to quote_string: the strs over 'a' and '"'
Texts == Strs({97, 34}, MaxLen)

\* the Node objects compared: Node(node_id, alias, label, properties)
EqNodes ==
    { Node(id, alias, label, properties) :
        id \in {None, <<1>>, <<2>>}, alias \in {NameA, NameB},
        label \in {NameL, NameK},
        properties \in { <<>>, << <<NameK, NameA>> >>,
                         << <<NameK, NameA>>, <<NameL, None>> >>,
                         << <<NameL, None>>, <<NameK, NameA>> >> } }

\* a call that leaves the graph alone; the calls do not depend on one
\* another, and a behaviour makes one
Pure ==
    /\ call.op = "__init__"
    /\ UNCHANGED <<flush_rate, recreate_flag, nodes, edges, _nodes_to_commit,
                   _edges_to_commit, _labels, _properties, _relationshipTypes,
                   heap, sent, created>>

\* rg_utils.validate_cypher_identifier(identifier, none_is_okay, raise_on_invalid)
ValidateCypherIdentifier ==
    \E identifier \in Identifiers, none_is_okay \in BOOLEAN,
       raise_on_invalid \in BOOLEAN :
        LET r == validate_cypher_identifier(identifier, none_is_okay, raise_on_invalid)
        IN  /\ Pure
            /\ call' = [op |-> "validate_cypher_identifier", identifier |-> identifier,
                         none_is_okay |-> none_is_okay,
                         raise_on_invalid |-> raise_on_invalid,
                         exc |-> r.exc, ret |-> r.is_valid]

\* rg_utils.quote_string(v)
QuoteString ==
    \E v \in Texts :
        /\ Pure
        /\ call' = [op |-> "quote_string", v |-> v, exc |-> "none",
                     ret |-> quote_string(v)]

\* self == rhs for two Node objects
NodeEq ==
    \E self \in EqNodes, rhs \in EqNodes :
        /\ Pure
        /\ call' = [op |-> "Node.__eq__", self |-> self, rhs |-> rhs, exc |-> "none",
                     ret |-> Node_eq(self, rhs)]

\* the calls of the functions of rg_utils and of the methods of Node that
\* neither read nor change a graph
UtilNext ==
    \/ ValidateCypherIdentifier
    \/ QuoteString
    \/ NodeEq

UtilSpec == Init /\ [][UtilNext]_vars

-----------------------------------------------------------------------------
(* Properties. *)

Min(a, b) == IF a < b THEN a ELSE b

\* ceil(n / f)
Ceil(n, f) == (n + f - 1) \div f

\* the fragments of the commands log[from..to], in the order sent
RECURSIVE Fragments(_, _, _)
Fragments(log, from, to) ==
    IF from > to THEN <<>> ELSE log[from].q \o Fragments(log, from + 1, to)

\* the i-th of the batches of f that l is cut into, in order
Batch(l, f, i) == SubSeq(l, (i - 1) * f + 1, Min(i * f, Len(l)))

\* C1: a commit that succeeds sends the pending nodes in insertion order in
\* ceil(n/f) commands, each of exactly flush_rate fragments except the last,
\* which holds the rest; then the pending edges likewise; nothing is sent for
\* an empty collection; both pending collections are empty afterwards.
C1_CommitBatches ==
    [][(call'.op = "commit" /\ call'.exc = "none") =>
        LET f == flush_rate
            ns == NodeStrs(G, _nodes_to_commit)
            es == EdgeStrs(G, _edges_to_commit)
            kn == Ceil(Len(ns), f)
            ke == Ceil(Len(es), f)
            log == commit(G, 0).log
        IN  /\ sent' = Summary(log)
            /\ Len(log) = kn + ke
            /\ \A i \in 1..kn : log[i].q = Batch(ns, f, i) /\ log[i].ok
            /\ \A i \in 1..ke : log[kn + i].q = Batch(es, f, i) /\ log[kn + i].ok
            /\ \A i \in 1..(kn - 1) : sent'[i].n = f
            /\ kn > 0 => sent'[kn].n = Len(ns) - (kn - 1) * f
            /\ \A i \in 1..(ke - 1) : sent'[kn + i].n = f
            /\ ke > 0 => sent'[kn + ke].n = Len(es) - (ke - 1) * f
            /\ _nodes_to_commit' = <<>>
            /\ _edges_to_commit' = <<>>
    ]_vars

\* three pending nodes were committed with flush_rate 2 in commands of 2 and 1
C1_Witness ==
    /\ call.op = "commit" /\ call.exc = "none"
    /\ flush_rate = 2
    /\ Len(nodes) = 3
    /\ sent = << [cmd |-> "GRAPH.QUERY", n |-> 2, ok |-> TRUE],
                 [cmd |-> "GRAPH.QUERY", n |-> 1, ok |-> TRUE] >>

\* C2: the commands of a commit are the batches of the pending nodes followed
\* by the batches of the pending edges; an edge command is sent only after
\* every node command succeeded, so a failing node flush sends no edge command.
C2_NodesBeforeEdges ==
    [][call'.op = "commit" =>
        LET f == flush_rate
            ns == NodeStrs(G, _nodes_to_commit)
            es == EdgeStrs(G, _edges_to_commit)
            kn == Ceil(Len(ns), f)
            fail == IF call'.exc = "none" THEN 0 ELSE Len(sent')
            log == commit(G, fail).log
        IN  /\ sent' = Summary(log)
            /\ \A i \in DOMAIN log :
                   IF i <= kn THEN log[i].q = Batch(ns, f, i)
                   ELSE /\ log[i].q = Batch(es, f, i - kn)
                        /\ \A j \in 1..kn : log[j].ok
            /\ (\E i \in DOMAIN log : i <= kn /\ ~log[i].ok) => Len(log) <= kn
    ]_vars

\* a commit whose node flush failed: nodes and edges were pending, one
\* command was sent and rejected, and nothing was sent for the edges
C2_Witness ==
    /\ call.op = "commit" /\ call.exc = "ResponseError"
    /\ Len(_nodes_to_commit) > 0
    /\ Len(_edges_to_commit) > 0
    /\ Len(sent) = 1 /\ ~sent[1].ok

\* C3: a flush whose remote call fails raises the failure to the caller and
\* leaves the collection it was flushing as it was, the items of the batches
\* already sent included: a retried commit sends all of them again.
C3_FailedFlushKeepsPending ==
    [][(call'.op \in {"commit", "recreate_in_database"} /\ call'.exc # "none") =>
        LET ns == NodeStrs(G, _nodes_to_commit)
            es == EdgeStrs(G, _edges_to_commit)
            kn == Ceil(Len(ns), flush_rate)
            retry == commit(G', 0)
        IN  /\ call'.exc = "ResponseError"
            /\ ~sent'[Len(sent')].ok
            /\ \A i \in 1..(Len(sent') - 1) : sent'[i].ok
            /\ UNCHANGED <<nodes, edges, heap, recreate_flag, _edges_to_commit>>
            /\ IF call'.op = "recreate_in_database" \/ Len(sent') <= kn
               THEN /\ _nodes_to_commit' = _nodes_to_commit
                    /\ Fragments(retry.log, 1, Len(retry.log)) = ns \o es
               ELSE /\ _nodes_to_commit' = <<>>
                    /\ Fragments(retry.log, 1, Len(retry.log)) = es
    ]_vars

\* a commit whose first node batch was sent and whose second was rejected:
\* the nodes of both batches are still pending
C3_Witness ==
    /\ call.op = "commit" /\ call.exc = "ResponseError"
    /\ Len(sent) = 2 /\ sent[1].ok /\ ~sent[2].ok
    /\ Len(_nodes_to_commit) >= sent[1].n + sent[2].n

\* C4: a commit that succeeds empties both pending collections and leaves
\* nodes and edges as they were; nodes holds one entry per alias added, so
\* n nodes of distinct aliases added and committed leave n entries in nodes.
C4_CommitFrame ==
    [][/\ (call'.op = "commit" /\ call'.exc = "none") =>
              /\ _nodes_to_commit' = <<>>
              /\ _edges_to_commit' = <<>>
              /\ UNCHANGED <<nodes, edges, heap>>
       /\ (call'.op \in {"add_node", "add_nodes"}) =>
              /\ Len(nodes') = Cardinality(DictKeys(nodes'))
              /\ DictKeys(nodes) \subseteq DictKeys(nodes')
              /\ edges' = edges
    ]_vars

\* three nodes were added and committed
C4_Witness ==
    /\ call.op = "commit" /\ call.exc = "none"
    /\ Len(nodes) = 3
    /\ Len(_nodes_to_commit) = 0
    /\ Len(sent) > 0

\* C5: with validate_nodes on, add_edge raises AssertionError and leaves edges
\* and the pending edges alone when the alias of an endpoint is no key of
\* nodes, and appends the edge to both when both are keys.
C5_AddEdgeValidates ==
    \A s \in NodeArgs(heap, NodeInputs) :
        \A d \in NodeArgs(s[1], NodeInputs) :
            LET edge == [src_node |-> s[2], dest_node |-> d[2]]
                r == add_edge([G EXCEPT !.heap = d[1]], edge, TRUE)
            IN  IF {d[1][s[2]].alias, d[1][d[2]].alias} \subseteq DictKeys(nodes)
                THEN /\ r.exc = "none"
                     /\ r.g.edges = Append(edges, edge)
                     /\ r.g._edges_to_commit = Append(_edges_to_commit, edge)
                ELSE /\ r.exc = "AssertionError"
                     /\ r.g.edges = edges
                     /\ r.g._edges_to_commit = _edges_to_commit

\* an add_edge was refused although a node is registered
C5_Witness ==
    /\ call.op = "add_edge" /\ call.exc = "AssertionError"
    /\ Len(nodes) > 0
    /\ edges = <<>>

\* the identifier grammar: absent, or non-empty, a letter or underscore first,
\* then letters, digits and underscores only
IsIdentifier(s) ==
    s # None =>
        /\ Len(s) >= 1
        /\ IsIdentStart(s[1])
        /\ \A i \in 2..Len(s) : IsIdentChar(s[i])

\* the alias, the label and every property key of node n are identifiers
AllIdentifiers(n) ==
    /\ IsIdentifier(n.alias)
    /\ IsIdentifier(n.label)
    /\ \A i \in DOMAIN n.properties : IsIdentifier(n.properties[i][1])

\* C6: add_node with validation on raises, and inserts the node into neither
\* nodes nor the pending nodes, when its alias, its label or one of its
\* property keys is no identifier; add_nodes stops at the first element that
\* raises and leaves the elements before it registered and pending.
C6_InvalidNodeRejected ==
    \A a \in NodeArgs(heap, NodeInputs), alias_property \in AliasProperties,
       rnd \in RandomStrings :
        LET g0 == [G EXCEPT !.heap = a[1]]
            r == add_node(g0, a[2], alias_property, TRUE, rnd)
        IN  /\ ~AllIdentifiers(r.g.heap[a[2]]) =>
                   /\ r.exc # "none"
                   /\ r.g.nodes = nodes
                   /\ r.g._nodes_to_commit = _nodes_to_commit
            /\ \A b \in NodeArgs(a[1], NodeInputs) :
                   LET g1 == [G EXCEPT !.heap = b[1]]
                       r1 == add_node(g1, a[2], alias_property, TRUE, rnd)
                       r2 == add_node(r1.g, b[2], alias_property, TRUE, rnd)
                       rs == add_nodes(g1, <<a[2], b[2]>>, alias_property, TRUE,
                                       <<rnd, rnd>>)
                   IN  IF r1.exc # "none"
                       THEN rs.exc = r1.exc /\ rs.g = r1.g
                       ELSE r2.exc # "none" =>
                                /\ rs.exc = r2.exc
                                /\ r1.ret \in DictKeys(rs.g.nodes)
                                /\ r1.ret \in DictKeys(rs.g._nodes_to_commit)
                                /\ DictGet(rs.g.nodes, r1.ret) = a[2]
                                /\ DictGet(rs.g._nodes_to_commit, r1.ret) = a[2]

\* C7: after add_node returns alias a, nodes[a] and the pending entry of a are
\* the node just added, no alias has two pending entries, and the next commit
\* sends one fragment with alias a, the one of the node just added.
C7_OneFragmentPerAlias ==
    \A a \in NodeArgs(heap, NodeInputs), alias_property \in AliasProperties,
       validate \in BOOLEAN, rnd \in RandomStrings :
        LET r == add_node([G EXCEPT !.heap = a[1]], a[2], alias_property, validate, rnd)
            pending == r.g._nodes_to_commit
            frags == NodeStrs(r.g, pending)
            log == commit(r.g, 0).log
            mine == {i \in DOMAIN pending : r.g.heap[pending[i][2]].alias = r.ret}
        IN  r.exc = "none" =>
                /\ DictGet(r.g.nodes, r.ret) = a[2]
                /\ DictGet(pending, r.ret) = a[2]
                /\ Len(pending) = Cardinality(DictKeys(pending))
                /\ Fragments(log, 1, Ceil(Len(frags), flush_rate)) = frags
                /\ Cardinality(mine) = 1
                /\ \A i \in mine : frags[i] = Node_str(r.g.heap[a[2]])

\* the operations that look up a cached list
LookupOps == {"get_label", "get_relation", "get_property"}

\* a step changes the cached list `cached` only by the lookup `op` with an
\* index that is out of range
OnlyByLookup(cached, cachedAfter, op) ==
    cachedAfter # cached => call'.op = op /\ ~InRange(cached, call'.idx)

\* C11 as stated: a cached list changes only in a lookup with an out-of-range
\* index; add_node, add_edge, commit, recreate_in_database, query and delete
\* leave the three cached lists as they are.
C11_CachesNeverInvalidated ==
    [][ /\ OnlyByLookup(_labels, _labels', "get_label")
        /\ OnlyByLookup(_relationshipTypes, _relationshipTypes', "get_relation")
        /\ OnlyByLookup(_properties, _properties', "get_property")
        /\ call'.op \notin LookupOps =>
               UNCHANGED <<_labels, _relationshipTypes, _properties>>
      ]_vars

\* C11 as amended: a cached list changes only in a lookup with an
\* out-of-range index, which refreshes it, and in delete, which empties all
\* three; add_node, add_edge, commit, recreate_in_database and query leave
\* the three cached lists as they are.
C11_CachesChangeByLookupOrDelete ==
    [][ IF call'.op = "delete"
        THEN _labels' = <<>> /\ _relationshipTypes' = <<>> /\ _properties' = <<>>
        ELSE /\ OnlyByLookup(_labels, _labels', "get_label")
             /\ OnlyByLookup(_relationshipTypes, _relationshipTypes', "get_relation")
             /\ OnlyByLookup(_properties, _properties', "get_property")
             /\ call'.op \notin LookupOps =>
                    UNCHANGED <<_labels, _relationshipTypes, _properties>>
      ]_vars

\* a commit sent a node while the three cached lists were filled
C11_Witness ==
    /\ call.op = "commit" /\ call.exc = "none"
    /\ Len(sent) > 0
    /\ _labels # <<>> /\ _relationshipTypes # <<>> /\ _properties # <<>>

\* C8: recreate_in_database with recreate_flag unset sends nothing and changes
\* nothing.
C8_RecreateNeedsFlag ==
    [][(call'.op = "recreate_in_database" /\ ~recreate_flag) =>
        /\ sent' = <<>>
        /\ call'.exc = "none"
        /\ UNCHANGED <<nodes, edges, _nodes_to_commit, _edges_to_commit,
                       recreate_flag, heap>>
    ]_vars

\* recreate_in_database returned without a command although nodes are pending
C8_Witness ==
    /\ call.op = "recreate_in_database" /\ call.exc = "none"
    /\ ~recreate_flag
    /\ sent = <<>>
    /\ Len(_nodes_to_commit) > 0

\* C9: recreate_in_database with recreate_flag set sends every node of nodes,
\* then every edge of edges, in batches of flush_rate; when it succeeds both
\* pending collections are empty and the flag is reset, so that calling it
\* again sends nothing.
C9_RecreateSendsAll ==
    [][(call'.op = "recreate_in_database" /\ recreate_flag /\ call'.exc = "none") =>
        LET f == flush_rate
            ns == NodeStrs(G, nodes)
            es == EdgeStrs(G, edges)
            kn == Ceil(Len(ns), f)
            ke == Ceil(Len(es), f)
            log == recreate_in_database(G, 0).log
        IN  /\ sent' = Summary(log)
            /\ Len(log) = kn + ke
            /\ \A i \in 1..kn : log[i].q = Batch(ns, f, i)
            /\ \A i \in 1..ke : log[kn + i].q = Batch(es, f, i)
            /\ _nodes_to_commit' = <<>>
            /\ _edges_to_commit' = <<>>
            /\ recreate_flag' = FALSE
            /\ UNCHANGED <<nodes, edges, heap>>
            /\ \A fail \in 0..1 :
                   /\ recreate_in_database(G', fail).log = <<>>
                   /\ recreate_in_database(G', fail).g = G'
    ]_vars

\* recreate_in_database sent the two nodes and the edge of a graph with
\* nothing pending left
C9_Witness ==
    /\ call.op = "recreate_in_database" /\ call.exc = "none"
    /\ ~recreate_flag
    /\ Len(nodes) = 2 /\ Len(edges) = 1
    /\ flush_rate = 1
    /\ Len(sent) = 3

\* C10: delete leaves nodes, edges and both pending collections empty and the
\* flag unset, and sends one GRAPH.DELETE; when the remote store rejects it the
\* failure is raised and the graph is empty all the same.
C10_DeleteResets ==
    [][call'.op = "delete" =>
        /\ nodes' = <<>> /\ edges' = <<>>
        /\ _nodes_to_commit' = <<>> /\ _edges_to_commit' = <<>>
        /\ recreate_flag' = FALSE
        /\ flush_rate' = flush_rate
        /\ Len(sent') = 1
        /\ sent'[1].cmd = "GRAPH.DELETE"
        /\ call'.exc = (IF sent'[1].ok THEN "none" ELSE "ResponseError")
    ]_vars

\* the remote delete was rejected and the graph is empty
C10_Witness ==
    /\ call.op = "delete" /\ call.exc = "ResponseError"
    /\ nodes = <<>> /\ edges = <<>>
    /\ _nodes_to_commit = <<>> /\ _edges_to_commit = <<>>
    /\ ~recreate_flag

\* C12: validate_cypher_identifier accepts a name that is present exactly
\* when it is non-empty, starts with a letter or an underscore and goes on
\* with letters, digits and underscores only, and accepts an absent name when
\* none_is_okay; it rejects by raising ValueError when raise_on_invalid and
\* by returning False otherwise.
C12_ValidatorIsTheGrammar ==
    call.op = "validate_cypher_identifier" =>
        LET valid == IF call.identifier = None THEN call.none_is_okay
                     ELSE IsIdentifier(call.identifier)
        IN  IF valid THEN call.exc = "none" /\ call.ret = TRUE
            ELSE IF call.raise_on_invalid THEN call.exc = "ValueError"
            ELSE call.exc = "none" /\ call.ret = FALSE

\* the items of a property mapping
Items(d) == {d[i] : i \in DOMAIN d}

\* C13: two nodes with the same non-null id are equal whatever their labels
\* and properties; two nodes with null ids are equal exactly when their
\* labels are equal and their properties map the same keys to the same
\* values; the result is the same under any other aliases.
C13_NodeEquality ==
    call.op = "Node.__eq__" =>
        LET a == call.self
            b == call.rhs
        IN  /\ (a.id # None /\ a.id = b.id) => call.ret = TRUE
            /\ (a.id = None /\ b.id = None) =>
                   (call.ret <=> (a.label = b.label
                                  /\ Items(a.properties) = Items(b.properties)))
            /\ \A x \in {None, NameA, NameB}, y \in {None, NameA, NameB} :
                   Node_eq([a EXCEPT !.alias = x], [b EXCEPT !.alias = y]) = call.ret

\* two nodes with the same id, other labels and other properties were found equal
C13_Witness ==
    /\ call.op = "Node.__eq__"
    /\ call.ret = TRUE
    /\ call.self.id # None /\ call.self.id = call.rhs.id
    /\ call.self.label # call.rhs.label
    /\ call.self.alias # call.rhs.alias
    /\ Items(call.self.properties) # Items(call.rhs.properties)

\* the k:v entries of the properties from the i-th on, comma-separated: one
\* for each property whose value is not None
RECURSIVE EntriesFrom(_, _)
EntriesFrom(properties, i) ==
    IF i > Len(properties) THEN <<>>
    ELSE LET rest == EntriesFrom(properties, i + 1)
             k == properties[i][1]
             v == properties[i][2]
         IN  IF v = None THEN rest
             ELSE k \o <<58>> \o quote_string(v)
                  \o (IF rest = <<>> THEN <<>> ELSE <<44>> \o rest)

\* C14: the fragment of a node holds one k:v entry for each property whose
\* value is not None, in the order of the properties, and none for a property
\* whose value is None; a node that add_node accepts is registered and
\* pending, under a random alias when it has none, and the next commit sends
\* that fragment and leaves nothing pending.
C14_NullPropertiesOmitted ==
    \A a \in NodeArgs(heap, NodeInputs), alias_property \in AliasProperties,
       validate \in BOOLEAN, rnd \in RandomStrings :
        LET r == add_node([G EXCEPT !.heap = a[1]], a[2], alias_property, validate, rnd)
            n == r.g.heap[a[2]]
            c == commit(r.g, 0)
            frag == <<40>> \o n.alias
                    \o (IF n.label = None THEN <<>> ELSE <<58>> \o n.label)
                    \o (IF n.properties = <<>> THEN <<>>
                        ELSE <<123>> \o EntriesFrom(n.properties, 1) \o <<125>>)
                    \o <<41>>
        IN  r.exc = "none" =>
                /\ (a[1][a[2]].alias = None /\ alias_property = None) => n.alias = rnd
                /\ DictGet(r.g.nodes, n.alias) = a[2]
                /\ DictGet(r.g._nodes_to_commit, n.alias) = a[2]
                /\ c.exc = "none"
                /\ \E i \in DOMAIN c.log : \E j \in DOMAIN c.log[i].q :
                       c.log[i].q[j] = frag
                /\ c.g._nodes_to_commit = <<>>

\* a node with a property whose value is None was added and committed
C14_Witness ==
    /\ call.op = "commit" /\ call.exc = "none"
    /\ Len(sent) > 0
    /\ _nodes_to_commit = <<>>
    /\ \E i \in DOMAIN nodes :
           \E j \in DOMAIN heap[nodes[i][2]].properties :
               heap[nodes[i][2]].properties[j][2] = None

\* C15: quote_string of a text that quote_string returned is that text; a
\* double quote is put in front of a text that does not start with one and
\* behind a text that does not end with one; '' becomes '""'.
C15_QuoteStringIdempotent ==
    call.op = "quote_string" =>
        LET v == call.v
            q == call.ret
        IN  /\ quote_string(q) = q
            /\ IF v = <<>> THEN q = <<34, 34>>
               ELSE q = (IF v[1] = 34 THEN <<>> ELSE <<34>>) \o v
                        \o (IF v[Len(v)] = 34 THEN <<>> ELSE <<34>>)

\* a text without quotes was quoted
C15_Witness ==
    /\ call.op = "quote_string"
    /\ call.v = <<97, 97>>
    /\ call.ret = <<34, 97, 97, 34>>

\* C16: every node of nodes is pending or was in a create command that
\* succeeded since the last delete; the pending edges are the last edges of
\* edges, and every edge before them was in a create command that succeeded
\* since the last delete.
C16_NoRegisteredEntityLost ==
    LET pending == Len(edges) - Len(_edges_to_commit)
    IN  /\ \A i \in DOMAIN nodes :
               \/ \E j \in DOMAIN _nodes_to_commit :
                      _nodes_to_commit[j][2] = nodes[i][2]
               \/ nodes[i][2] \in created.objs
        /\ pending >= 0
        /\ _edges_to_commit = SubSeq(edges, pending + 1, Len(edges))
        /\ \A p \in 1..pending : p \in created.edges

\* a commit failed after its first command: one node was sent and both nodes
\* are still pending
C16_Witness ==
    /\ call.op = "commit" /\ call.exc = "ResponseError"
    /\ Len(sent) = 2 /\ sent[1].ok /\ ~sent[2].ok
    /\ Len(nodes) = 2 /\ Len(_nodes_to_commit) = 2
    /\ created.objs # {}

\* the number of fragments in the commands of s
RECURSIVE FragmentsSent(_)
FragmentsSent(s) == IF s = <<>> THEN 0 ELSE Head(s).n + FragmentsSent(Tail(s))

\* C17: when every add_edge runs with validate_nodes on, every edge fragment
\* that a commit or a recreate_in_database sends names as source and as
\* destination an alias whose node fragment was sent in an earlier command.
C17_EndpointsBeforeEdges ==
    [][call'.op \in {"commit", "recreate_in_database"} =>
        LET items == FlushedBy(call')
        IN  \A i \in 1..FragmentsSent(sent') :
                items[i][1] = "edge" =>
                    LET edge == edges[items[i][2]]
                    IN  /\ heap[edge.src_node].alias \in created'.aliases
                        /\ heap[edge.dest_node].alias \in created'.aliases
    ]_vars

\* C18: every key k of nodes and of the pending nodes maps to a Node object
\* whose current alias is k.
C18_KeyIsAlias ==
    /\ \A i \in DOMAIN nodes : heap[nodes[i][2]].alias = nodes[i][1]
    /\ \A i \in DOMAIN _nodes_to_commit :
           heap[_nodes_to_commit[i][2]].alias = _nodes_to_commit[i][1]

\* self == rhs is the result the call returned, rhs == self gives the same,
\* and self == self holds
ReflexiveSymmetric ==
    /\ call.ret = Node_eq(call.self, call.rhs)
    /\ Node_eq(call.self, call.self)
    /\ Node_eq(call.rhs, call.self) = call.ret

\* C19 as stated: over nodes with null or non-null ids, labels and properties,
\* node equality is reflexive, symmetric and transitive.
C19_EquivalenceRelation ==
    call.op = "Node.__eq__" =>
        /\ ReflexiveSymmetric
        /\ \A c \in EqNodes :
               (call.ret /\ Node_eq(call.rhs, c)) => Node_eq(call.self, c)

\* C19: over nodes with null or non-null ids, labels and properties, node
\* equality is reflexive and symmetric; whenever a equals b, b equals c and
\* the id of b is null, a equals c.
C19_EquivalenceOverNullIds ==
    call.op = "Node.__eq__" =>
        /\ ReflexiveSymmetric
        /\ \A c \in EqNodes :
               (call.ret /\ Node_eq(call.rhs, c) /\ call.rhs.id = None)
                   => Node_eq(call.self, c)

\* a node with an id was found equal to a node without one that holds the
\* same properties in another order, and that one equals a node with another id
C19_Witness ==
    /\ call.op = "Node.__eq__"
    /\ call.ret = TRUE
    /\ call.self.id # None /\ call.rhs.id = None
    /\ call.self.properties # call.rhs.properties
    /\ \E c \in EqNodes :
           /\ c.id \notin {None, call.self.id}
           /\ Node_eq(call.rhs, c)
           /\ Node_eq(call.self, c)

\* what C20 says of one lookup: `cached` is the list before the call, r the
\* call's outcome, after its list afterwards, unchanged whether the Graph
\* object is otherwise as before, and procedure the catalog procedure
LookupAsSpecified(cached, idx, response, r, after, unchanged, procedure) ==
    LET names == [i \in DOMAIN response |-> response[i][1]]
    IN  /\ unchanged
        /\ IF idx < Len(cached)
           THEN /\ r.log = <<>>
                /\ r.exc = "none"
                /\ r.ret = cached[idx + 1]
                /\ after = cached
           ELSE /\ Len(r.log) = 1
                /\ r.log[1].cmd = "GRAPH.QUERY"
                /\ r.log[1].q = << <<67, 65, 76, 76, 32>> \o procedure \o <<40, 41>> >>
                /\ IF ~r.log[1].ok
                   THEN r.exc = "ResponseError" /\ after = cached
                   ELSE /\ after = names
                        /\ IF idx < Len(names)
                           THEN r.exc = "none" /\ r.ret = names[idx + 1]
                           ELSE r.exc = "IndexError"

\* C20: a catalog lookup whose index is within the cached list returns the
\* cached entry and sends nothing; one whose index is out of range sends
\* exactly one catalog query, replaces the whole cached list by the names
\* returned and returns the entry at that index of the new list, failing with
\* IndexError if the index is still out of range; a query that fails leaves
\* the list as it was.
C20_CatalogLookup ==
    \A idx \in Indexes, response \in CatalogReplies, fail \in 0..1 :
        LET l == get_label(G, idx, response, fail)
            t == get_relation(G, idx, response, fail)
            p == get_property(G, idx, response, fail)
        IN  /\ LookupAsSpecified(_labels, idx, response, l, l.g._labels,
                                 l.g = [G EXCEPT !._labels = l.g._labels],
                                 ProcLabels)
            /\ LookupAsSpecified(_relationshipTypes, idx, response, t,
                                 t.g._relationshipTypes,
                                 t.g = [G EXCEPT !._relationshipTypes =
                                                     t.g._relationshipTypes],
                                 ProcRelationshipTypes)
            /\ LookupAsSpecified(_properties, idx, response, p, p.g._properties,
                                 p.g = [G EXCEPT !._properties = p.g._properties],
                                 ProcPropertyKeys)

\* get_label(1) found one label cached, refreshed the list to one label again
\* and failed
C20_Witness ==
    /\ call.op = "get_label" /\ call.idx = 1 /\ call.exc = "IndexError"
    /\ Len(sent) = 1 /\ sent[1].ok
    /\ _labels = <<NameL>>

====
